---- MODULE Spec2Model ----
(***************************************************************************)
(* Model of library/core/src/ptr/verify_const_prt.rs: the two Kani proof   *)
(* harnesses kani_pointer_add and kani_pointer_offset and their proof      *)
(* entry points verify_pointer_add and verify_pointer_offset.              *)
(*                                                                         *)
(* Machine words are WordBits wide.  The harnesses are compiled by Kani,   *)
(* which checks integer arithmetic: an overflowing `*` or `+` on usize and *)
(* a division by zero end the invocation with a failed check of their own. *)
(* The `as isize` cast reinterprets the word in two's complement.          *)
(* ptr.add / ptr.offset leaving the allocated object is undefined          *)
(* behaviour: the model either reports it (Kani's pointer check) or goes   *)
(* on with the address wrapped to the word, nondeterministically.          *)
(***************************************************************************)
EXTENDS Integers, Naturals, Sequences, FiniteSets, TLC

\* Width of usize / isize in bits (64 on the real target).
WordBits == 3

\* Largest size_of::<T>() of the element types T the harnesses are instantiated with.
MaxElemSize == 3

\* s.len() of the literal "123".
StrLen == 3

RECURSIVE Pow2(_)
Pow2(n) == IF n = 0 THEN 1 ELSE 2 * Pow2(n - 1)

UsizeMax == Pow2(WordBits) - 1
IsizeMax == Pow2(WordBits - 1) - 1
IsizeMin == 0 - Pow2(WordBits - 1)

Usize == 0 .. UsizeMax
Isize == IsizeMin .. IsizeMax

\* The element types T: size_of::<T>() and align_of::<T>(), size a multiple of
\* the alignment; size 0 is a zero-sized type, [size 1, align 1] is u8.
ElemTypes == { t \in [size : 0 .. MaxElemSize, align : {1, 2}] : t.size % t.align = 0 }

U8 == [size |-> 1, align |-> 1]

\* The bytes of the literal "123".
Literal == << "1", "2", "3" >>

\* Where the literal's storage may lie: a non-null allocated object whose
\* one-past-the-end address is still an address (base + size <= usize::MAX).
Bases == { b \in Usize : b >= 1 /\ b + StrLen <= UsizeMax }

VARIABLES
    harness,        \* "add" (kani_pointer_add) or "offset" (kani_pointer_offset)
    call,           \* 0: a symbolic invocation; 1, 2: the entry point's first, second call
    alloc_base,     \* address of the literal's storage, the only allocated object
    buffer,         \* contents of the literal's storage
    s_ptr,          \* the entry point's local `ptr`
    s_len,          \* the entry point's local `object_size`
    T,              \* the element type the harness is instantiated with
    ptr,            \* parameter `ptr`
    count,          \* parameter `count` (usize for add, isize for offset)
    object_size,    \* parameter `object_size`
    size_of_t,      \* local `size_of_t`
    max_offset,     \* local `max_offset` (offset harness)
    offset_ptr,     \* local `offset_ptr`
    end_of_object,  \* local `end_of_object`
    pc,             \* the statement the invocation is at
    outcome         \* how the invocation stands or ended

vars == << harness, call, alloc_base, buffer, s_ptr, s_len, T, ptr, count,
           object_size, size_of_t, max_offset, offset_ptr, end_of_object, pc, outcome >>

callerVars == << alloc_base, buffer, s_ptr, s_len >>
paramVars == << harness, call, T, ptr, count, object_size >>

\* Ways an invocation ends in a reported failure.
Failures == { "assert_failed", "div_by_zero", "mul_overflow", "add_overflow", "ub_offset" }

----------------------------------------------------------------------------
\* Pure operations of the harnesses.

\* kani::mem::can_dereference(ptr): aligned, and size_of::<T>() bytes at ptr lie
\* in an allocated object (always so for a zero-sized T).
CanDereference(t, p) ==
    /\ p % t.align = 0
    /\ \/ t.size = 0
       \/ (alloc_base <= p /\ p + t.size <= alloc_base + StrLen)

\* Mutant of MulOverflows: the multiplication is not checked and wraps silently.
MulOverflows_Unchecked(c, sz) == FALSE

\* `count * size_of_t` overflows usize (Kani: "attempt to multiply with overflow").
MulOverflows(c, sz) == c * sz > UsizeMax

\* The value of `count * size_of_t` in a usize.
WrappingMul(c, sz) == (c * sz) % Pow2(WordBits)

\* `ptr as usize + object_size` overflows usize (Kani: "attempt to add with overflow").
AddOverflows(p, os) == p + os > UsizeMax

\* `x as isize` of a usize x.
AsIsize(x) == IF x > IsizeMax THEN x - Pow2(WordBits) ELSE x

\* `(object_size / size_of_t) as isize`, for size_of_t > 0.
MaxOffsetOf(os, sz) == AsIsize(os \div sz)

\* Mutant of AddPrecondition: the bound is off by one byte.
AddPrecondition_OffByOne(c, sz, os) == WrappingMul(c, sz) <= os + 1

\* The condition of kani::assume in kani_pointer_add.
AddPrecondition(c, sz, os) == WrappingMul(c, sz) <= os

\* Mutant of OffsetPrecondition: the bound is off by one element.
OffsetPrecondition_OffByOne(c, mo) == c >= 0 /\ c <= mo + 1

\* The condition of kani::assume in kani_pointer_offset.
OffsetPrecondition(c, mo) == c >= 0 /\ c <= mo

\* Mutant of PtrAdd: the pointer is advanced as if its elements were twice as wide.
PtrAdd_WideElem(p, c, sz) == p + c * (2 * sz)

\* Address ptr.add(count) / ptr.offset(count) aims at: count elements of sz bytes on.
PtrAdd(p, c, sz) == p + c * sz

\* ptr.add / ptr.offset is undefined behaviour unless the offset is zero bytes or
\* both ptr and the result lie in (or one past the end of) the same allocated object.
OffsetIsUB(p, c, sz) ==
    /\ c * sz # 0
    /\ ~ (alloc_base <= p /\ PtrAdd(p, c, sz) <= alloc_base + StrLen)

\* `offset_ptr <= end_of_object`, a comparison of addresses.
PostCondition(op, eo) == op <= eo

----------------------------------------------------------------------------
\* Statements of the harnesses.

Halt(o) == pc' = "halt" /\ outcome' = o

\* kani::assume(can_dereference(ptr))
AssumeDeref ==
    /\ pc = "assume_deref"
    /\ IF CanDereference(T, ptr)
         THEN pc' = "size_of" /\ outcome' = outcome
         ELSE Halt("discarded")
    /\ UNCHANGED << callerVars, paramVars, size_of_t, max_offset, offset_ptr, end_of_object >>

\* let size_of_t = std::mem::size_of::<T>()
SizeOf ==
    /\ pc = "size_of"
    /\ size_of_t' = T.size
    /\ pc' = IF harness = "add" THEN "assume_pre" ELSE "max_offset"
    /\ UNCHANGED << callerVars, paramVars, max_offset, offset_ptr, end_of_object, outcome >>

\* let max_offset = (object_size / size_of_t) as isize
MaxOffset ==
    /\ pc = "max_offset"
    /\ IF size_of_t = 0
         THEN Halt("div_by_zero") /\ max_offset' = max_offset
         ELSE /\ max_offset' = MaxOffsetOf(object_size, size_of_t)
              /\ pc' = "assume_pre"
              /\ outcome' = outcome
    /\ UNCHANGED << callerVars, paramVars, size_of_t, offset_ptr, end_of_object >>

\* kani::assume(count * size_of_t <= object_size)  /
\* kani::assume(count >= 0 && count <= max_offset)
AssumePre ==
    /\ pc = "assume_pre"
    /\ IF harness = "add"
         THEN IF MulOverflows(count, size_of_t)
                THEN Halt("mul_overflow")
                ELSE IF AddPrecondition(count, size_of_t, object_size)
                       THEN pc' = "arith" /\ outcome' = outcome
                       ELSE Halt("discarded")
         ELSE IF OffsetPrecondition(count, max_offset)
                THEN pc' = "arith" /\ outcome' = outcome
                ELSE Halt("discarded")
    /\ UNCHANGED << callerVars, paramVars, size_of_t, max_offset, offset_ptr, end_of_object >>

\* Mutant of Arith: the harness advances the caller's pointer in place.
Arith_InPlace ==
    /\ pc = "arith"
    /\ offset_ptr' = (ptr + count * size_of_t) % Pow2(WordBits)
    /\ s_ptr' = offset_ptr'
    /\ pc' = "end_of_object"
    /\ UNCHANGED << alloc_base, buffer, s_len, paramVars, size_of_t, max_offset,
                    end_of_object, outcome >>

\* let offset_ptr = ptr.add(count)  /  ptr.offset(count)
Arith ==
    /\ pc = "arith"
    /\ \E detected \in BOOLEAN :
         IF OffsetIsUB(ptr, count, size_of_t)
           THEN IF detected
                  THEN Halt("ub_offset") /\ offset_ptr' = offset_ptr
                  ELSE /\ offset_ptr' = PtrAdd(ptr, count, size_of_t) % Pow2(WordBits)
                       /\ pc' = "end_of_object"
                       /\ outcome' = outcome
           ELSE /\ offset_ptr' = PtrAdd(ptr, count, size_of_t)
                /\ pc' = "end_of_object"
                /\ outcome' = outcome
    /\ UNCHANGED << callerVars, paramVars, size_of_t, max_offset, end_of_object >>

\* let end_of_object = (ptr as usize + object_size) as *const T
EndOfObject ==
    /\ pc = "end_of_object"
    /\ IF AddOverflows(ptr, object_size)
         THEN Halt("add_overflow") /\ end_of_object' = end_of_object
         ELSE /\ end_of_object' = ptr + object_size
              /\ pc' = "assert"
              /\ outcome' = outcome
    /\ UNCHANGED << callerVars, paramVars, size_of_t, max_offset, offset_ptr >>

\* kani::assert(offset_ptr <= end_of_object, "Pointer offset is out of bounds.")
KaniAssert ==
    /\ pc = "assert"
    /\ IF PostCondition(offset_ptr, end_of_object)
         THEN pc' = "return" /\ outcome' = "passed"
         ELSE Halt("assert_failed")
    /\ UNCHANGED << callerVars, paramVars, size_of_t, max_offset, offset_ptr, end_of_object >>

\* The entry point's second call: kani_pointer_add(ptr, 2, object_size)  /
\* kani_pointer_offset(ptr, 2, object_size), once the first has returned.
SecondCall ==
    /\ pc = "return"
    /\ call = 1
    /\ call' = 2
    /\ ptr' = s_ptr
    /\ count' = 2
    /\ object_size' = s_len
    /\ size_of_t' = 0
    /\ max_offset' = 0
    /\ offset_ptr' = 0
    /\ end_of_object' = 0
    /\ pc' = "assume_deref"
    /\ outcome' = "running"
    /\ UNCHANGED << callerVars, harness, T >>

----------------------------------------------------------------------------
\* The harnesses over every input of the bounded word: one invocation of either
\* harness with an arbitrary element type, pointer, count and object size.

Init ==
    /\ harness \in { "add", "offset" }
    /\ call = 0
    /\ alloc_base \in Bases
    /\ buffer = Literal
    /\ s_ptr = alloc_base
    /\ s_len = StrLen
    /\ T \in ElemTypes
    /\ ptr \in Usize
    /\ count \in (IF harness = "add" THEN Usize ELSE Isize)
    /\ object_size \in Usize
    /\ size_of_t = 0
    /\ max_offset = 0
    /\ offset_ptr = 0
    /\ end_of_object = 0
    /\ pc = "assume_deref"
    /\ outcome = "running"

Next ==
    \/ AssumeDeref
    \/ SizeOf
    \/ MaxOffset
    \/ AssumePre
    \/ Arith
    \/ EndOfObject
    \/ KaniAssert

Spec == Init /\ [][Next]_vars

\* The proof entry points verify_pointer_add and verify_pointer_offset:
\* s = "123", ptr = s.as_ptr(), object_size = s.len(), first call with count 1.
ProofInit ==
    /\ harness \in { "add", "offset" }
    /\ call = 1
    /\ alloc_base \in Bases
    /\ buffer = Literal
    /\ s_ptr = alloc_base
    /\ s_len = Len(Literal)
    /\ T = U8
    /\ ptr = s_ptr
    /\ count = 1
    /\ object_size = s_len
    /\ size_of_t = 0
    /\ max_offset = 0
    /\ offset_ptr = 0
    /\ end_of_object = 0
    /\ pc = "assume_deref"
    /\ outcome = "running"

ProofNext ==
    \/ AssumeDeref
    \/ SizeOf
    \/ MaxOffset
    \/ AssumePre
    \/ Arith
    \/ EndOfObject
    \/ KaniAssert
    \/ SecondCall

ProofSpec == ProofInit /\ [][ProofNext]_vars

TypeOK ==
    /\ harness \in { "add", "offset" }
    /\ call \in 0 .. 2
    /\ alloc_base \in Bases
    /\ T \in ElemTypes
    /\ ptr \in Usize
    /\ count \in Usize \cup Isize
    /\ object_size \in Usize
    /\ size_of_t \in 0 .. MaxElemSize
    /\ max_offset \in Isize
    /\ offset_ptr \in Usize
    /\ end_of_object \in Usize
    /\ pc \in { "assume_deref", "size_of", "max_offset", "assume_pre", "arith",
                "end_of_object", "assert", "return", "halt" }
    /\ outcome \in { "running", "discarded", "passed" } \cup Failures

----------------------------------------------------------------------------
\* Properties of the harnesses.

\* The invocation has computed offset_ptr (line 25 / line 62 has been executed
\* without a reported pointer check).
ArithDone ==
    \/ pc \in { "end_of_object", "assert", "return" }
    \/ pc = "halt" /\ outcome \in { "add_overflow", "assert_failed" }

\* The invocation has reached the postcondition assertion (line 31 / line 68).
AssertReached ==
    \/ pc \in { "assert", "return" }
    \/ pc = "halt" /\ outcome = "assert_failed"

\* C1: in kani_pointer_add, for every pointer, element type, count and object
\* size, the assertion "Pointer offset is out of bounds." never fails, and the
\* pointer computed by ptr.add(count) is at or before start address + object size.
C1_AddWithinBounds ==
    harness = "add" =>
        /\ outcome # "assert_failed"
        /\ ArithDone => offset_ptr <= ptr + object_size
        /\ AssertReached => PostCondition(offset_ptr, end_of_object)

C1_Witness ==
    /\ harness = "add" /\ call = 0
    /\ pc = "return" /\ outcome = "passed"
    /\ count * size_of_t > 0
    /\ offset_ptr = ptr + count * size_of_t

\* C2: in kani_pointer_offset, for every pointer, element type, object size and
\* signed count with 0 <= count <= (object_size / size_of_t) as isize, the
\* assertion never fails and the pointer computed by ptr.offset(count) is at or
\* before start address + object size.
C2_OffsetWithinBounds ==
    harness = "offset" =>
        /\ outcome # "assert_failed"
        /\ ArithDone => (count >= 0 /\ count <= max_offset /\ offset_ptr <= ptr + object_size)
        /\ AssertReached => PostCondition(offset_ptr, end_of_object)

C2_Witness ==
    /\ harness = "offset" /\ call = 0
    /\ pc = "return" /\ outcome = "passed"
    /\ count > 0 /\ size_of_t > 1
    /\ offset_ptr = ptr + count * size_of_t

\* C3: in both proof entry points the call with offset 1 and the call with
\* offset 2 satisfy the preconditions (no path is discarded), report no failure,
\* and return with the result pointer start + offset, at or before start + 3.
C3_ProofsSucceed ==
    /\ outcome \notin Failures \cup { "discarded" }
    /\ pc # "halt"
    /\ count = call
    /\ pc = "return" =>
          /\ outcome = "passed"
          /\ offset_ptr = s_ptr + count
          /\ offset_ptr <= s_ptr + 3
          /\ end_of_object = s_ptr + 3

C3_Witness ==
    /\ call = 2 /\ count = 2
    /\ pc = "return" /\ outcome = "passed"
    /\ offset_ptr = s_ptr + 2

\* C4: the only failure an invocation of either harness can end in is the
\* postcondition assertion; no division by zero, multiplication overflow,
\* addition overflow or other check fails.
C4_SingleFailureMode ==
    outcome \in Failures => outcome = "assert_failed"

\* C5: for every positive element size, object size and count that is
\* non-negative in both usize and isize, the offset harness's precondition holds
\* exactly when the addition harness's precondition holds.
C5_SameContract ==
    (harness = "offset" /\ pc = "assume_pre" /\ size_of_t > 0 /\ count >= 0) =>
        (OffsetPrecondition(count, max_offset)
            <=> AddPrecondition(count, size_of_t, object_size))

\* C6: in every invocation that passes its preconditions the result pointer is
\* at or after the start pointer and at or before start + object size.
C6_RangeWithinObject ==
    ArithDone => (ptr <= offset_ptr /\ offset_ptr <= ptr + object_size)

\* The inputs violate a precondition of the harness they are passed to.
PreconditionViolated ==
    \/ ~ CanDereference(T, ptr)
    \/ harness = "add" /\ count * T.size > object_size
    \/ harness = "offset" /\ count < 0
    \/ harness = "offset" /\ T.size > 0 /\ count > object_size \div T.size

\* C7: an invocation whose inputs violate a precondition never reports a
\* failure; it is discarded before the pointer arithmetic.
C7_ViolatedPreconditionDiscards ==
    PreconditionViolated => (outcome \notin Failures /\ ~ ArithDone)

\* C8: an invocation leaves the entry point's pointer, object size and the
\* buffer as they were, and the harness's own parameters too: the second call
\* runs with the start pointer and object size of the first.
C8_NoMutation ==
    /\ s_ptr = alloc_base
    /\ s_len = StrLen
    /\ buffer = Literal
    /\ ptr = s_ptr
    /\ object_size = s_len
    /\ (call = 2 /\ pc = "return") => (outcome = "passed" /\ offset_ptr = alloc_base + 2)

C8_Witness ==
    /\ call = 2 /\ pc = "assume_deref" /\ outcome = "running"
    /\ ptr = s_ptr /\ object_size = s_len

\* C9: whenever kani_pointer_add reaches the postcondition assertion, the exact
\* product count * size_of_t fits in the word and is at most object_size.
C9_NoWrappedPrecondition ==
    (harness = "add" /\ (pc = "arith" \/ ArithDone \/ outcome = "ub_offset")) =>
        /\ count * size_of_t <= UsizeMax
        /\ count * size_of_t <= object_size

C9_Witness ==
    /\ harness = "add" /\ pc = "assert"
    /\ count > 1 /\ size_of_t > 1
    /\ count * size_of_t = object_size

\* C10: both harnesses admit the count with count * element size = object size,
\* the result pointer is then the end-of-object address and the postcondition
\* holds; the next larger count is rejected by the precondition.
C10_Boundary ==
    /\ (CanDereference(T, ptr) /\ count >= 0 /\ count * T.size = object_size
            /\ pc \in { "return", "halt" })
         => (outcome = "passed" /\ offset_ptr = ptr + object_size)
    /\ (CanDereference(T, ptr) /\ T.size > 0 /\ count >= 1
            /\ (count - 1) * T.size = object_size /\ pc \in { "return", "halt" })
         => outcome = "discarded"

====
